---- MODULE Spec2Model ----
(***************************************************************************)
(* Model of the omics-ai-mcp HTTP wrapper (src/src/http-wrapper.js): the   *)
(* session table, one worker process per session, the framing of a         *)
(* worker's stdout into JSON messages and the busy-polling Send.           *)
(*                                                                         *)
(* Node runs every handler to its first await without interleaving, so     *)
(* each action below is one such run-to-completion step.  A worker process *)
(* counts as live until the wrapper has sent it a kill signal or has been  *)
(* delivered its 'exit' event.                                             *)
(***************************************************************************)
EXTENDS Integers, Sequences, FiniteSets, TLC

\* ------------------------------------------------------------------ bounds
MaxIds == 2        \* distinct session ids a client may name
MaxProcs == 2      \* worker processes the wrapper holds at one time
MaxReqs == 2       \* messages written to workers in one run
MaxPipe == 4       \* bytes a worker's stdout pipe holds before it blocks
MaxStream == 5     \* bytes of an arbitrary worker output stream
MaxLines == 3      \* lines of a response body given to the classifier
MaxRows == 2       \* rows of a data array
MaxBodyLines == 2  \* lines of a response body of a table query
MaxPollsArg == 3   \* the largest max_polls a caller passes explicitly
MaxAddr == 4       \* pieces of a network argument
TickStep == 30000  \* milliseconds by which one Tick advances the clock

\* ------------------------------------------------------- program constants
timeout == 30000       \* const timeout = 30000
PollInterval == 100    \* setTimeout(resolve, 100)
maxPolls == 10         \* const maxPolls = 10
DefaultMaxPolls == 10  \* max_polls = 10

Ids == 1..MaxIds
Pids == 1..MaxProcs
Rids == 1..MaxReqs

NL == "\n"
Whitespace == {" ", NL}
Digit == <<"1", "2", "3", "4", "5", "6", "7", "8", "9">>

\* Bytes of a two-byte UTF-8 character, the character they decode to
\* together, and U+FFFD, which a byte that cannot be decoded becomes.
LeadByte == "C3"
ContByte == "A9"
TwoByteChar == "E"
Replacement == "?"
\* the characters the content of a message is made of
StringChars == {Digit[d] : d \in 1..Len(Digit)} \cup {TwoByteChar, Replacement}

\* ----------------------------------------------------------- pure helpers
\* JSON.stringify(message): a message is an object, named here by the
\* characters of its content.
Stringify(m) == <<"{">> \o m \o <<"}">>

\* data.toString(): the bytes of one chunk decoded as UTF-8 by themselves; a
\* lead byte the chunk does not complete and a continuation byte the chunk
\* does not start each decode to U+FFFD.
RECURSIVE DataToString(_)
DataToString(data) ==
    IF data = <<>> THEN <<>>
    ELSE IF Head(data) = LeadByte
    THEN IF Len(data) >= 2 /\ data[2] = ContByte
         THEN <<TwoByteChar>> \o DataToString(SubSeq(data, 3, Len(data)))
         ELSE <<Replacement>> \o DataToString(Tail(data))
    ELSE IF Head(data) = ContByte
    THEN <<Replacement>> \o DataToString(Tail(data))
    ELSE <<Head(data)>> \o DataToString(Tail(data))

\* String.prototype.split('\n'): the pieces between newlines, at least one.
RECURSIVE SplitAcc(_, _, _)
SplitAcc(s, cur, acc) ==
    IF s = <<>> THEN Append(acc, cur)
    ELSE IF Head(s) = NL THEN SplitAcc(Tail(s), <<>>, Append(acc, cur))
    ELSE SplitAcc(Tail(s), Append(cur, Head(s)), acc)

Split(s) == SplitAcc(s, <<>>, <<>>)

\* String.prototype.trim()
RECURSIVE TrimLeft(_)
TrimLeft(s) ==
    IF s # <<>> /\ Head(s) \in Whitespace THEN TrimLeft(Tail(s)) ELSE s

RECURSIVE TrimRight(_)
TrimRight(s) ==
    IF s # <<>> /\ s[Len(s)] \in Whitespace
    THEN TrimRight(SubSeq(s, 1, Len(s) - 1)) ELSE s

Trim(s) == TrimRight(TrimLeft(s))

\* JSON.parse(line) succeeds exactly on the text of an object: braces around
\* content characters, whitespace allowed around and between them; anything
\* else throws.
Parses(line) ==
    LET t == Trim(line)
    IN  /\ Len(t) >= 2
        /\ t[1] = "{"
        /\ t[Len(t)] = "}"
        /\ \A i \in 2..(Len(t) - 1) : t[i] \in StringChars \cup Whitespace

NotWhitespace(c) == c \notin Whitespace

JsonParse(line) ==
    LET t == Trim(line)
    IN  SelectSeq(SubSeq(t, 2, Len(t) - 1), NotWhitespace)

\* The body of the for loop of the stdout listener: blank lines are skipped,
\* lines that fail to parse are logged and dropped.
RECURSIVE PushLines(_, _)
PushLines(lines, queue) ==
    IF lines = <<>> THEN queue
    ELSE LET line == Head(lines)
         IN  IF Trim(line) # <<>> /\ Parses(line)
             THEN PushLines(Tail(lines), Append(queue, JsonParse(line)))
             ELSE PushLines(Tail(lines), queue)

\* lines.pop() || ''
Pop(lines) == lines[Len(lines)]
AllButLast(lines) == SubSeq(lines, 1, Len(lines) - 1)

\* Faulty variant of OnData: the buffer keeps everything received.
OnData_KeepAll(buf, queue, data) ==
    LET lines == Split(buf \o DataToString(data))
    IN  [buffer |-> buf \o DataToString(data),
         responses |-> PushLines(AllButLast(lines), queue)]

\* The stdout listener: session.buffer += data.toString(); split on '\n';
\* the last piece stays in the buffer, the others are parsed and pushed.
OnData(buf, queue, data) ==
    LET lines == Split(buf \o DataToString(data))
    IN  [buffer |-> Pop(lines),
         responses |-> PushLines(AllButLast(lines), queue)]

\* Map.set / Map.delete on the session table
MapSet(f, k, v) == [x \in (DOMAIN f) \cup {k} |-> IF x = k THEN v ELSE f[x]]
MapDelete(f, k) == [x \in (DOMAIN f) \ {k} |-> f[x]]

Min(a, b) == IF a < b THEN a ELSE b

\* ------------------------------------------------------------------- state
VARIABLES
    running,         \* the wrapper process has not exited
    activeSessions,  \* the session table: id -> session (named by its pid)
    pstate,          \* per process: "none", "live", "killed", "exited",
                     \* "failed" (the spawn failed, its 'error' is pending)
    psid,            \* per process: the sessionId its listeners captured
    buffer,          \* session.buffer
    responses,       \* session.responses
    stdin,           \* bytes written to the worker and not yet read by it
    stdout,          \* bytes written by the worker and not yet delivered
    reqs,            \* message requests that wait in the loop
    res,             \* the request answered by the step just taken, if any
    overlapped,      \* sessions on which two waits have overlapped
    stream,          \* an arbitrary byte stream a worker writes
    fed,             \* how many bytes of it the stdout listener has received
    rawText,         \* a response body, as its lines
    classified,      \* what parseJsonLinesResponse made of it
    site,            \* the tool that polls: "none", "table", "sql"
    pc,              \* where the tool call stands
    pollCount,       \* pollCount
    max_polls,       \* the attempts allowed
    payload,         \* queryTable: payload.next_page_token
    nextPageUrl,     \* sqlSearch, pollSqlResults: nextPageUrl
    requests,        \* HTTP requests issued by the tool call
    sent,            \* the last of them
    waits,           \* delays started between attempts
    outcome,         \* what the tool call returned or threw
    tool,            \* request.params.name of the tool call, or "none"
    reply,           \* what the call-tool handler answered the caller
    network,         \* the network argument of a tool call
    resolved         \* what getNetworkUrl made of it

bridgeVars == <<running, activeSessions, pstate, psid, buffer, responses,
                stdin, stdout, reqs, res, overlapped>>
frameVars == <<stream, fed>>
classVars == <<rawText, classified>>
pollVars == <<site, pc, pollCount, max_polls, payload, nextPageUrl,
              requests, sent, waits, outcome>>
toolVars == <<tool, reply>>
\* the variables the session bridge leaves alone
netVars == <<network, resolved>>
otherVars == <<frameVars, classVars, pollVars, toolVars, netVars>>

vars == <<bridgeVars, otherVars>>

procVars == <<pstate, psid, buffer, responses, stdin, stdout>>

IdleReq == [st |-> "idle", session |-> 0, message |-> <<>>, elapsed |-> 0,
            due |-> FALSE, seen |-> <<>>]

DoneReq == [IdleReq EXCEPT !.st = "done"]

NoRes == [op |-> "none", status |-> 0, sessionId |-> 0, session |-> 0,
          message |-> <<>>, body |-> <<>>, sessions |-> {}, worker |-> "none",
          serial |-> TRUE]

\* the wrapper after start: app.listen, an empty table
BridgeInit ==
    /\ running = TRUE
    /\ activeSessions = <<>>
    /\ pstate = [p \in Pids |-> "none"]
    /\ psid = [p \in Pids |-> 0]
    /\ buffer = [p \in Pids |-> <<>>]
    /\ responses = [p \in Pids |-> <<>>]
    /\ stdin = [p \in Pids |-> <<>>]
    /\ stdout = [p \in Pids |-> <<>>]
    /\ reqs = [r \in Rids |-> IdleReq]
    /\ res = NoRes
    /\ overlapped = {}

NoStream ==
    /\ stream = <<>>
    /\ fed = 0

NotClassified == [kind |-> "none"]

NoBody ==
    /\ rawText = <<>>
    /\ classified = NotClassified

NoOutcome == [kind |-> "none", rows |-> 0, message |-> ""]
NoRequest == [to |-> "none", next_page_token |-> "absent"]

\* no tool call has started
NoPoll ==
    /\ site = "none"
    /\ pc = "Idle"
    /\ pollCount = 0
    /\ max_polls = 0
    /\ payload = "absent"
    /\ nextPageUrl = "none"
    /\ requests = 0
    /\ sent = NoRequest
    /\ waits = 0
    /\ outcome = NoOutcome

NoReply == [kind |-> "none", prefix |-> "", message |-> ""]

\* no tool call has arrived
NoTool ==
    /\ tool = "none"
    /\ reply = NoReply

NotResolved == [kind |-> "none"]

\* no address is being resolved
NoNetwork ==
    /\ network = <<>>
    /\ resolved = NotResolved

Init ==
    /\ BridgeInit
    /\ NoStream
    /\ NoBody
    /\ NoPoll
    /\ NoTool
    /\ NoNetwork

Spawned == {p \in Pids : pstate[p] # "none"}
Live == {p \in Pids : pstate[p] = "live"}
UsedIds == {psid[p] : p \in Spawned}
Known(id) == id \in DOMAIN activeSessions
InTable(p) == \E id \in DOMAIN activeSessions : activeSessions[id] = p
Waiting(p) == {r \in Rids : reqs[r].st = "wait" /\ reqs[r].session = p}

\* the process handle spawn() returns: the least one not in use
FreePids == Pids \ Spawned
NextPid == CHOOSE p \in FreePids : \A q \in FreePids : p <= q
\* the slot the next accepted message request takes
NextRid == Cardinality({r \in Rids : reqs[r].st # "idle"}) + 1
\* uuidv4(): an id no session or listener of the wrapper holds.  Ids are
\* opaque to the wrapper, so the least such id stands for any of them, also
\* when it is the client that names it.
FreshIds == IF Ids \ UsedIds = {} THEN {}
            ELSE {CHOOSE id \in Ids \ UsedIds : \A j \in Ids \ UsedIds : id <= j}
\* the ids a client request may name: every id in use, and one that is not
ClientIds == UsedIds \cup FreshIds

\* ------------------------------------------------------ session creation
\* spawn('node', ['src/index.js']) and the session object built around it;
\* activeSessions.set(sessionId, session)
CreateSession(id, p) ==
    /\ pstate' = [pstate EXCEPT ![p] = "live"]
    /\ psid' = [psid EXCEPT ![p] = id]
    /\ buffer' = [buffer EXCEPT ![p] = <<>>]
    /\ activeSessions' = MapSet(activeSessions, id, p)

\* POST /session: a fresh uuid, a new worker, the table entry, the id back
OpenSession ==
    /\ running
    /\ FreePids # {}
    /\ \E id \in FreshIds :
        /\ CreateSession(id, NextPid)
        /\ res' = [NoRes EXCEPT !.op = "open", !.status = 200,
                                !.sessionId = id, !.session = NextPid]
    /\ UNCHANGED <<running, responses, stdin, stdout, reqs,
                   overlapped>>

\* ------------------------------------------------------------------- Send
\* req.body of the r-th message request: the message with id r
Body(r) == <<Digit[r]>>

\* Faulty variant of BeginWait: the queue of every session is cleared.
BeginWait_ClearsAll(r, p, m) ==
    /\ responses' = [q \in Pids |-> <<>>]
    /\ stdin' = [stdin EXCEPT ![p] = @ \o Stringify(m) \o <<NL>>]
    /\ reqs' = [reqs EXCEPT ![r] =
                  [st |-> "wait", session |-> p, message |-> m,
                   elapsed |-> 0, due |-> FALSE, seen |-> <<>>]]
    /\ overlapped' = IF Waiting(p) # {} THEN overlapped \cup {p}
                     ELSE overlapped
    /\ res' = NoRes

\* session.responses = []; stdin.write(JSON.stringify(message) + '\n');
\* startTime = Date.now(); the first test of the loop (queue empty, nothing
\* elapsed) and the first setTimeout
BeginWait(r, p, m) ==
    /\ responses' = [responses EXCEPT ![p] = <<>>]
    /\ stdin' = [stdin EXCEPT ![p] = @ \o Stringify(m) \o <<NL>>]
    /\ reqs' = [reqs EXCEPT ![r] =
                  [st |-> "wait", session |-> p, message |-> m,
                   elapsed |-> 0, due |-> FALSE, seen |-> <<>>]]
    /\ overlapped' = IF Waiting(p) # {} THEN overlapped \cup {p}
                     ELSE overlapped
    /\ res' = NoRes

Reject(ep, id, code) ==
    /\ res' = [NoRes EXCEPT !.op = ep, !.status = code, !.sessionId = id]
    /\ UNCHANGED <<reqs, overlapped>>

\* Faulty variant of SendMessage: the queue is cleared before the body is
\* validated.
SendMessage_ClearsFirst(r, id, hasMessage) ==
    /\ running
    /\ r = NextRid
    /\ IF ~Known(id)
       THEN /\ Reject("message", id, 404)
            /\ UNCHANGED <<responses, stdin>>
       ELSE IF ~hasMessage
       THEN /\ Reject("message", id, 400)
            /\ responses' = [responses EXCEPT ![activeSessions[id]] = <<>>]
            /\ UNCHANGED stdin
       ELSE BeginWait(r, activeSessions[id], Body(r))
    /\ UNCHANGED <<running, activeSessions, pstate, psid, buffer, stdout>>

\* Faulty variant of SendMessage: the body is validated before the lookup.
SendMessage_BodyFirst(r, id, hasMessage) ==
    /\ running
    /\ r = NextRid
    /\ IF ~hasMessage
       THEN /\ Reject("message", id, 400)
            /\ UNCHANGED <<responses, stdin>>
       ELSE IF ~Known(id)
       THEN /\ Reject("message", id, 404)
            /\ UNCHANGED <<responses, stdin>>
       ELSE BeginWait(r, activeSessions[id], Body(r))
    /\ UNCHANGED <<running, activeSessions, pstate, psid, buffer, stdout>>

\* POST /session/:sessionId/message
SendMessage(r, id, hasMessage) ==
    /\ running
    /\ r = NextRid
    /\ IF ~Known(id)
       THEN /\ Reject("message", id, 404)
            /\ UNCHANGED <<responses, stdin>>
       ELSE IF ~hasMessage
       THEN /\ Reject("message", id, 400)
            /\ UNCHANGED <<responses, stdin>>
       ELSE BeginWait(r, activeSessions[id], Body(r))
    /\ UNCHANGED <<running, activeSessions, pstate, psid, buffer, stdout>>

\* POST /v1/omics-ai-mcp/messages?sessionId=: get or create, then send
PostMessages(r, id, hasSessionId) ==
    /\ running
    /\ r = NextRid
    /\ IF ~hasSessionId
       THEN /\ Reject("messages", 0, 400)
            /\ UNCHANGED <<activeSessions, procVars>>
       ELSE IF Known(id)
       THEN /\ BeginWait(r, activeSessions[id], Body(r))
            /\ UNCHANGED <<activeSessions, pstate, psid, buffer, stdout>>
       ELSE /\ FreePids # {}
            /\ CreateSession(id, NextPid)
            /\ BeginWait(r, NextPid, Body(r))
            /\ UNCHANGED stdout
    /\ UNCHANGED running

\* A session whose worker has exited and on which no request waits any more
\* is unreachable: the runtime frees it and its process handle, with
\* whatever its pipe still holds.
Release(p, free) ==
    /\ pstate' = [pstate EXCEPT ![p] = IF free THEN "none" ELSE @]
    /\ psid' = [psid EXCEPT ![p] = IF free THEN 0 ELSE @]
    /\ buffer' = [buffer EXCEPT ![p] = IF free THEN <<>> ELSE @]
    /\ responses' = [responses EXCEPT ![p] = IF free THEN <<>> ELSE @]
    /\ stdout' = [stdout EXCEPT ![p] = IF free THEN <<>> ELSE @]
    /\ overlapped' = IF free THEN overlapped \ {p} ELSE overlapped

\* the reply of a message request that leaves the loop
Answer(r, code, body) ==
    [NoRes EXCEPT !.op = "reply", !.status = code,
                  !.sessionId = psid[reqs[r].session],
                  !.session = reqs[r].session,
                  !.message = reqs[r].message, !.body = body,
                  !.worker = pstate[reqs[r].session],
                  !.serial = reqs[r].session \notin overlapped]

\* Faulty variant of SendPoll: a timeout closes the session.
SendPoll_TimeoutCloses(r) ==
    /\ running
    /\ reqs[r].st = "wait"
    /\ reqs[r].due
    /\ LET p == reqs[r].session
           last == pstate[p] = "exited" /\ Waiting(p) = {r}
       IN  IF responses[p] # <<>>
           THEN /\ reqs' = [reqs EXCEPT ![r] = DoneReq]
                /\ res' = Answer(r, 200, responses[p][1])
                /\ Release(p, last)
                /\ UNCHANGED activeSessions
           ELSE IF reqs[r].elapsed > timeout
           THEN /\ reqs' = [reqs EXCEPT ![r] = DoneReq]
                /\ res' = Answer(r, 504, <<>>)
                /\ Release(p, last)
                /\ activeSessions' = MapDelete(activeSessions, psid[p])
           ELSE /\ reqs' = [reqs EXCEPT ![r].due = FALSE]
                /\ res' = NoRes
                /\ Release(p, FALSE)
                /\ UNCHANGED activeSessions
    /\ UNCHANGED <<running, stdin>>

\* Faulty variant of SendPoll: the loop has no deadline test.
SendPoll_NoDeadline(r) ==
    /\ running
    /\ reqs[r].st = "wait"
    /\ reqs[r].due
    /\ LET p == reqs[r].session
           last == pstate[p] = "exited" /\ Waiting(p) = {r}
       IN  IF responses[p] # <<>>
           THEN /\ reqs' = [reqs EXCEPT ![r] = DoneReq]
                /\ res' = Answer(r, 200, responses[p][1])
                /\ Release(p, last)
           ELSE /\ reqs' = [reqs EXCEPT ![r].due = FALSE]
                /\ res' = NoRes
                /\ Release(p, FALSE)
    /\ UNCHANGED <<running, activeSessions, stdin>>

\* Faulty variant of SendPoll: the deadline is tested before the queue.
SendPoll_DeadlineFirst(r) ==
    /\ running
    /\ reqs[r].st = "wait"
    /\ reqs[r].due
    /\ LET p == reqs[r].session
           last == pstate[p] = "exited" /\ Waiting(p) = {r}
       IN  IF reqs[r].elapsed > timeout
           THEN /\ reqs' = [reqs EXCEPT ![r] = DoneReq]
                /\ res' = Answer(r, 504, <<>>)
                /\ Release(p, last)
           ELSE IF responses[p] # <<>>
           THEN /\ reqs' = [reqs EXCEPT ![r] = DoneReq]
                /\ res' = Answer(r, 200, responses[p][1])
                /\ Release(p, last)
           ELSE /\ reqs' = [reqs EXCEPT ![r].due = FALSE]
                /\ res' = NoRes
                /\ Release(p, FALSE)
    /\ UNCHANGED <<running, activeSessions, stdin>>

\* One turn of the wait loop after its timer fired: the while test, the
\* deadline test, the next setTimeout; res.json(session.responses[0]) when
\* the loop ends.
SendPoll(r) ==
    /\ running
    /\ reqs[r].st = "wait"
    /\ reqs[r].due
    /\ LET p == reqs[r].session
           last == pstate[p] = "exited" /\ Waiting(p) = {r}
       IN  IF responses[p] # <<>>
           THEN /\ reqs' = [reqs EXCEPT ![r] = DoneReq]
                /\ res' = Answer(r, 200, responses[p][1])
                /\ Release(p, last)
           ELSE IF reqs[r].elapsed > timeout
           THEN /\ reqs' = [reqs EXCEPT ![r] = DoneReq]
                /\ res' = Answer(r, 504, <<>>)
                /\ Release(p, last)
           ELSE /\ reqs' = [reqs EXCEPT ![r].due = FALSE]
                /\ res' = NoRes
                /\ Release(p, FALSE)
    /\ UNCHANGED <<running, activeSessions, stdin>>

\* Time passes: Date.now() moves on for every waiting request and every
\* pending 100 ms timer expires.
ElapsedCap == timeout + TickStep

Tick ==
    /\ running
    /\ TickStep >= PollInterval
    /\ \E r \in Rids :
        reqs[r].st = "wait" /\ (~reqs[r].due \/ reqs[r].elapsed < ElapsedCap)
    /\ reqs' = [r \in Rids |->
                 IF reqs[r].st = "wait"
                 THEN [reqs[r] EXCEPT
                         !.elapsed = Min(@ + TickStep, ElapsedCap),
                         !.due = TRUE]
                 ELSE reqs[r]]
    /\ res' = NoRes
    /\ UNCHANGED <<running, activeSessions, procVars, overlapped>>

\* ------------------------------------------------------ close, list, exit
\* Faulty variant of CloseSession: the worker is killed, the entry stays.
CloseSession_NoDelete(id) ==
    /\ running
    /\ IF ~Known(id)
       THEN /\ res' = [NoRes EXCEPT !.op = "close", !.status = 404,
                                    !.sessionId = id]
            /\ UNCHANGED <<pstate, stdin>>
       ELSE LET p == activeSessions[id]
            IN  /\ pstate' = [pstate EXCEPT ![p] = "killed"]
                /\ stdin' = [stdin EXCEPT ![p] = <<>>]
                /\ res' = [NoRes EXCEPT !.op = "close", !.status = 200,
                                        !.sessionId = id, !.session = p]
    /\ UNCHANGED <<running, activeSessions, psid, buffer, responses, stdout,
                   reqs, overlapped>>

\* Faulty variant of CloseSession: an unknown id is answered like a known
\* one.
CloseSession_NoLookup(id) ==
    /\ running
    /\ IF ~Known(id)
       THEN /\ res' = [NoRes EXCEPT !.op = "close", !.status = 200,
                                    !.sessionId = id]
            /\ UNCHANGED <<activeSessions, pstate, stdin>>
       ELSE LET p == activeSessions[id]
            IN  /\ pstate' = [pstate EXCEPT ![p] = "killed"]
                /\ stdin' = [stdin EXCEPT ![p] = <<>>]
                /\ activeSessions' = MapDelete(activeSessions, id)
                /\ res' = [NoRes EXCEPT !.op = "close", !.status = 200,
                                        !.sessionId = id, !.session = p]
    /\ UNCHANGED <<running, psid, buffer, responses, stdout, reqs,
                   overlapped>>

\* DELETE /session/:sessionId
CloseSession(id) ==
    /\ running
    /\ IF ~Known(id)
       THEN /\ res' = [NoRes EXCEPT !.op = "close", !.status = 404,
                                    !.sessionId = id]
            /\ UNCHANGED <<activeSessions, pstate, stdin>>
       ELSE LET p == activeSessions[id]
            IN  /\ pstate' = [pstate EXCEPT ![p] = "killed"]
                /\ stdin' = [stdin EXCEPT ![p] = <<>>]
                /\ activeSessions' = MapDelete(activeSessions, id)
                /\ res' = [NoRes EXCEPT !.op = "close", !.status = 200,
                                        !.sessionId = id, !.session = p]
    /\ UNCHANGED <<running, psid, buffer, responses, stdout, reqs,
                   overlapped>>

\* GET /sessions
SessionList == {[id |-> i, active |-> TRUE] : i \in DOMAIN activeSessions}

ListSessions ==
    /\ running
    /\ res' = [NoRes EXCEPT !.op = "list", !.status = 200,
                            !.sessions = SessionList]
    /\ UNCHANGED <<running, activeSessions, procVars, reqs,
                   overlapped>>

\* Faulty variant of ProcessExit: the exit listener leaves the table alone.
ProcessExit_NoDelete(p) ==
    /\ running
    /\ pstate[p] \in {"live", "killed"}
    /\ IF Waiting(p) = {}
       THEN Release(p, TRUE)
       ELSE /\ pstate' = [pstate EXCEPT ![p] = "exited"]
            /\ UNCHANGED <<psid, buffer, responses, stdout, overlapped>>
    /\ stdin' = [stdin EXCEPT ![p] = <<>>]
    /\ res' = NoRes
    /\ UNCHANGED <<running, activeSessions, reqs>>

\* mcpProcess.on('exit'): the worker is gone, by itself or after a kill;
\* the listener deletes the table entry of the id it captured
ProcessExit(p) ==
    /\ running
    /\ pstate[p] \in {"live", "killed"}
    /\ activeSessions' = MapDelete(activeSessions, psid[p])
    /\ IF Waiting(p) = {}
       THEN Release(p, TRUE)
       ELSE /\ pstate' = [pstate EXCEPT ![p] = "exited"]
            /\ UNCHANGED <<psid, buffer, responses, stdout, overlapped>>
    /\ stdin' = [stdin EXCEPT ![p] = <<>>]
    /\ res' = NoRes
    /\ UNCHANGED <<running, reqs>>

\* process.on('SIGTERM'): kill every session of the table, process.exit(0).
\* The table, the sessions and the waiting requests go with the process;
\* what stays is the worker processes.
Shutdown ==
    /\ running
    /\ pstate' = [p \in Pids |-> IF InTable(p) THEN "killed" ELSE pstate[p]]
    /\ running' = FALSE
    /\ activeSessions' = <<>>
    /\ buffer' = [p \in Pids |-> <<>>]
    /\ responses' = [p \in Pids |-> <<>>]
    /\ stdin' = [p \in Pids |-> <<>>]
    /\ stdout' = [p \in Pids |-> <<>>]
    /\ reqs' = [r \in Rids |-> IdleReq]
    /\ res' = NoRes
    /\ overlapped' = {}
    /\ UNCHANGED psid

\* ----------------------------------------------------------------- worker
HasLine(s) == Len(s) >= 4 /\ s[4] = NL

\* The worker reads one request line and writes its reply line; the reply
\* carries the id of the request it answers.
WorkerReply(p) ==
    /\ running
    /\ pstate[p] = "live"
    /\ HasLine(stdin[p])
    /\ Len(stdout[p]) + 4 <= MaxPipe
    /\ stdout' = [stdout EXCEPT
                    ![p] = @ \o Stringify(JsonParse(SubSeq(stdin[p], 1, 3)))
                             \o <<NL>>]
    /\ stdin' = [stdin EXCEPT ![p] = SubSeq(@, 5, Len(@))]
    /\ res' = NoRes
    /\ UNCHANGED <<running, activeSessions, pstate, psid, buffer, responses,
                   reqs, overlapped>>

\* The worker reads one request line and writes nothing (a notification).
WorkerIgnore(p) ==
    /\ running
    /\ pstate[p] = "live"
    /\ HasLine(stdin[p])
    /\ stdin' = [stdin EXCEPT ![p] = SubSeq(@, 5, Len(@))]
    /\ res' = NoRes
    /\ UNCHANGED <<running, activeSessions, pstate, psid, buffer, responses,
                   stdout, reqs, overlapped>>

\* mcpProcess.stdout.on('data'): the first k bytes of the pipe arrive
StdoutData(p, k) ==
    /\ running
    /\ k \in 1..Len(stdout[p])
    /\ LET data == SubSeq(stdout[p], 1, k)
           after == OnData(buffer[p], responses[p], data)
           queue == after.responses
           fresh == SubSeq(queue, Len(responses[p]) + 1, Len(queue))
       IN  /\ buffer' = [buffer EXCEPT ![p] = after.buffer]
           /\ responses' = [responses EXCEPT ![p] = queue]
           /\ reqs' = [r \in Rids |->
                        IF reqs[r].st = "wait" /\ reqs[r].session = p
                        THEN [reqs[r] EXCEPT !.seen = @ \o fresh]
                        ELSE reqs[r]]
    /\ stdout' = [stdout EXCEPT ![p] = SubSeq(@, k + 1, Len(@))]
    /\ res' = NoRes
    /\ UNCHANGED <<running, activeSessions, pstate, psid, stdin,
                   overlapped>>

Next ==
    \/ OpenSession /\ UNCHANGED otherVars
    \/ \E r \in Rids, id \in ClientIds, hasMessage \in BOOLEAN :
          SendMessage(r, id, hasMessage) /\ UNCHANGED otherVars
    \/ \E r \in Rids, id \in ClientIds, hasSessionId \in BOOLEAN :
          PostMessages(r, id, hasSessionId) /\ UNCHANGED otherVars
    \/ \E r \in Rids : SendPoll(r) /\ UNCHANGED otherVars
    \/ Tick /\ UNCHANGED otherVars
    \/ \E id \in ClientIds : CloseSession(id) /\ UNCHANGED otherVars
    \/ ListSessions /\ UNCHANGED otherVars
    \/ \E p \in Pids : ProcessExit(p) /\ UNCHANGED otherVars
    \/ Shutdown /\ UNCHANGED otherVars
    \/ \E p \in Pids : WorkerReply(p) /\ UNCHANGED otherVars
    \/ \E p \in Pids : WorkerIgnore(p) /\ UNCHANGED otherVars
    \/ \E p \in Pids, k \in 1..MaxPipe :
          StdoutData(p, k) /\ UNCHANGED otherVars

Spec == Init /\ [][Next]_vars

\* ------------------------------------------------------------ spawn failure
\* spawn() does not throw when the process cannot be started: it returns a
\* handle and emits 'error' on it on the next tick, before any other event
\* is handled.  The handle has its stdio streams (ENOENT, EACCES, EAGAIN) or
\* has none (EMFILE, ENFILE).
NoPendingError == \A p \in Pids : pstate[p] # "failed"

\* POST /session when the spawn fails.  With streams the handler runs to its
\* end as if the worker had started; without them mcpProcess.stdout.on
\* throws a TypeError, which express answers with status 500, before the
\* exit listener is attached and the table entry made.
OpenSessionSpawnFails(streams) ==
    /\ running
    /\ NoPendingError
    /\ FreePids # {}
    /\ \E id \in FreshIds :
        IF streams
        THEN /\ pstate' = [pstate EXCEPT ![NextPid] = "failed"]
             /\ psid' = [psid EXCEPT ![NextPid] = id]
             /\ buffer' = [buffer EXCEPT ![NextPid] = <<>>]
             /\ activeSessions' = MapSet(activeSessions, id, NextPid)
             /\ res' = [NoRes EXCEPT !.op = "open", !.status = 200,
                                     !.sessionId = id, !.session = NextPid]
        ELSE /\ pstate' = [pstate EXCEPT ![NextPid] = "failed"]
             /\ res' = [NoRes EXCEPT !.op = "open", !.status = 500]
             /\ UNCHANGED <<psid, buffer, activeSessions>>
    /\ UNCHANGED <<running, responses, stdin, stdout, reqs, overlapped>>

\* The 'error' event of a handle whose spawn failed.  No handler registers
\* an 'error' listener, so the emit throws, nothing catches it and the
\* wrapper process ends; its workers are not killed.
SpawnErrorEvent(p) ==
    /\ running
    /\ pstate[p] = "failed"
    /\ running' = FALSE
    /\ pstate' = [pstate EXCEPT ![p] = "none"]
    /\ psid' = [psid EXCEPT ![p] = 0]
    /\ activeSessions' = <<>>
    /\ buffer' = [q \in Pids |-> <<>>]
    /\ responses' = [q \in Pids |-> <<>>]
    /\ stdin' = [q \in Pids |-> <<>>]
    /\ stdout' = [q \in Pids |-> <<>>]
    /\ reqs' = [r \in Rids |-> IdleReq]
    /\ res' = NoRes
    /\ overlapped' = {}

SpawnNext ==
    \/ NoPendingError /\ Next
    \/ \E streams \in BOOLEAN :
          OpenSessionSpawnFails(streams) /\ UNCHANGED otherVars
    \/ \E p \in Pids : SpawnErrorEvent(p) /\ UNCHANGED otherVars

\* the wrapper on a host where a spawn may fail
SpawnSpec == Init /\ [][SpawnNext]_vars

\* ------------------------------------------- framing of an arbitrary stream
Bytes == {"{", "}", NL, " ", LeadByte, ContByte}

RECURSIVE ByteSeqs(_)
ByteSeqs(n) ==
    IF n = 0 THEN {<<>>}
    ELSE LET shorter == ByteSeqs(n - 1)
         IN  shorter \cup {Append(s, b) : s \in shorter, b \in Bytes}

\* A wrapper with one session, just created, whose worker is about to write
\* some byte stream.
FrameInit ==
    /\ running = TRUE
    /\ activeSessions = MapSet(<<>>, 1, 1)
    /\ pstate = [p \in Pids |-> IF p = 1 THEN "live" ELSE "none"]
    /\ psid = [p \in Pids |-> IF p = 1 THEN 1 ELSE 0]
    /\ buffer = [p \in Pids |-> <<>>]
    /\ responses = [p \in Pids |-> <<>>]
    /\ stdin = [p \in Pids |-> <<>>]
    /\ stdout = [p \in Pids |-> <<>>]
    /\ reqs = [r \in Rids |-> IdleReq]
    /\ res = NoRes
    /\ overlapped = {}
    /\ stream \in ByteSeqs(MaxStream)
    /\ fed = 0
    /\ NoBody
    /\ NoPoll
    /\ NoTool
    /\ NoNetwork

\* mcpProcess.stdout.on('data') with the next k bytes of the stream
FrameChunk(k) ==
    /\ k \in 1..(Len(stream) - fed)
    /\ LET after == OnData(buffer[1], responses[1],
                           SubSeq(stream, fed + 1, fed + k))
       IN  /\ buffer' = [buffer EXCEPT ![1] = after.buffer]
           /\ responses' = [responses EXCEPT ![1] = after.responses]
    /\ fed' = fed + k
    /\ UNCHANGED <<running, activeSessions, pstate, psid, stdin, stdout,
                   reqs, res, overlapped, stream, classVars, pollVars,
                   toolVars, netVars>>

FrameNext == \E k \in 1..MaxStream : FrameChunk(k)

FrameSpec == FrameInit /\ [][FrameNext]_vars

\* Timers fire and time passes while the wrapper runs.
FairSpec ==
    /\ Spec
    /\ WF_vars(Tick /\ UNCHANGED otherVars)
    /\ \A r \in Rids : WF_vars(SendPoll(r) /\ UNCHANGED otherVars)

TypeOK ==
    /\ running \in BOOLEAN
    /\ DOMAIN activeSessions \subseteq Ids
    /\ \A id \in DOMAIN activeSessions : activeSessions[id] \in Spawned
    /\ \A p \in Pids :
          pstate[p] \in {"none", "live", "killed", "exited", "failed"}

\* ------------------------------------------- line-delimited JSON classifier
\* The values a line of a response body can parse to: an object, given by
\* its fields, null (any falsy value) and a number (any truthy value that
\* is not an object).
Sentinel == "empty_response_poll"
Tokens == {Sentinel, "t1", "t2"}
\* the value of a data field: an array of n rows, or a value that is not an
\* array
Rows(n) == [present |-> TRUE, array |-> TRUE, length |-> n]
NotArray == [present |-> TRUE, array |-> FALSE, length |-> 0]
DataValues == {Rows(n) : n \in 0..MaxRows} \cup {NotArray}
\* the data of an object that has no data field
NoData == [present |-> FALSE, array |-> FALSE, length |-> 0]
FieldNames == {"data", "next_page_token", "pagination"}

\* the objects of the model, each given by its fields: a data value or
\* none, a token or "absent", a pagination field or not
ObjectFields ==
    {[data |-> d, next_page_token |-> t, pagination |-> g] :
        d \in DataValues \cup {NoData}, t \in Tokens \cup {"absent"},
        g \in {"page", "absent"}}

Object(f) == [type |-> "object", fields |-> f]
Null == [type |-> "null"]
Number == [type |-> "number"]
JsonValues == {Object(f) : f \in ObjectFields} \cup {Null, Number}

\* A line of a body: blank, text that JSON.parse rejects, or the text of a
\* value.
BlankLine == [text |-> "blank"]
BadLine == [text |-> "bad"]
JsonLine(v) == [text |-> "json", value |-> v]
Lines == {BlankLine, BadLine} \cup {JsonLine(v) : v \in JsonValues}

RECURSIVE Bodies(_)
Bodies(n) ==
    IF n = 0 THEN {<<>>}
    ELSE LET shorter == Bodies(n - 1)
         IN  shorter \cup {Append(b, l) : b \in shorter, l \in Lines}

NotBlank(line) == line.text # "blank"
LineParses(line) == line.text = "json"

\* obj && ... : null, 0, false and '' are falsy
Truthy(obj) == obj.type # "null"
\* Object.keys(obj)
Keys(obj) ==
    IF obj.type = "object"
    THEN {name \in FieldNames :
            IF name = "data" THEN obj.fields.data.present
            ELSE obj.fields[name] # "absent"}
    ELSE {}

Returned(obj) == [kind |-> "value", value |-> obj]
Thrown(message) == [kind |-> "error", message |-> message]

\* for (let i = jsonObjects.length - 1; i >= 0; i--)
\*   if (obj && name in obj) return obj;
\* the in operator throws a TypeError on a value that is not an object
RECURSIVE LastWith(_, _, _)
LastWith(name, jsonObjects, i) ==
    IF i = 0 THEN [kind |-> "none"]
    ELSE LET obj == jsonObjects[i]
         IN  IF ~Truthy(obj) THEN LastWith(name, jsonObjects, i - 1)
             ELSE IF obj.type # "object" THEN Thrown("TypeError")
             ELSE IF name \in Keys(obj) THEN Returned(obj)
             ELSE LastWith(name, jsonObjects, i - 1)

NonEmpty(obj) == Truthy(obj) /\ Keys(obj) # {}

\* Faulty variant of Select: without data or token the last object is
\* returned, empty or not.
Select_AnyLast(jsonObjects) ==
    LET withData == LastWith("data", jsonObjects, Len(jsonObjects))
        withToken == LastWith("next_page_token", jsonObjects,
                              Len(jsonObjects))
    IN  IF withData.kind # "none" THEN withData
        ELSE IF withToken.kind # "none" THEN withToken
        ELSE Returned(jsonObjects[Len(jsonObjects)])

\* what remains of parseJsonLinesResponse once some line has parsed
Select(jsonObjects) ==
    LET withData == LastWith("data", jsonObjects, Len(jsonObjects))
        withToken == LastWith("next_page_token", jsonObjects,
                              Len(jsonObjects))
        nonEmptyObjects == SelectSeq(jsonObjects, NonEmpty)
    IN  IF withData.kind # "none" THEN withData
        ELSE IF withToken.kind # "none" THEN withToken
        ELSE IF nonEmptyObjects # <<>>
        THEN Returned(nonEmptyObjects[Len(nonEmptyObjects)])
        ELSE Thrown("No data or next_page_token found in response")

\* Faulty variant of ParseJsonLinesResponse: a line that fails to parse is
\* fatal.
ParseJsonLinesResponse_Strict(body) ==
    LET lines == SelectSeq(body, NotBlank)
        parsed == SelectSeq(lines, LineParses)
        jsonObjects == [i \in 1..Len(parsed) |-> parsed[i].value]
    IN  IF lines = <<>> THEN Thrown("Empty response received")
        ELSE IF Len(parsed) < Len(lines)
        THEN Thrown("No valid JSON objects found in response")
        ELSE Select(jsonObjects)

\* parseJsonLinesResponse(rawText)
ParseJsonLinesResponse(body) ==
    LET lines == SelectSeq(body, NotBlank)
        parsed == SelectSeq(lines, LineParses)
        jsonObjects == [i \in 1..Len(parsed) |-> parsed[i].value]
    IN  IF lines = <<>> THEN Thrown("Empty response received")
        ELSE IF jsonObjects = <<>>
        THEN Thrown("No valid JSON objects found in response")
        ELSE Select(jsonObjects)

ClassifyInit ==
    /\ BridgeInit
    /\ NoStream
    /\ rawText \in Bodies(MaxLines)
    /\ classified = NotClassified
    /\ NoPoll
    /\ NoTool
    /\ NoNetwork

Classify ==
    /\ classified = NotClassified
    /\ classified' = ParseJsonLinesResponse(rawText)
    /\ UNCHANGED <<bridgeVars, frameVars, rawText, pollVars, toolVars,
                   netVars>>

ClassifyNext == Classify

ClassifySpec == ClassifyInit /\ [][ClassifyNext]_vars

\* ---------------------------------------------------------- polling engine
\* client.post / client.get rejects: no connection, a timeout, a status
\* that is not 2xx
TransportError == [kind |-> "transport"]
TableResponses ==
    {TransportError} \cup
    {[kind |-> "body", body |-> b] : b \in Bodies(MaxBodyLines)}

\* A response of the SQL endpoints: text that is not JSON, or an object with
\* or without errors, a data array and pagination.next_page_url.
InvalidJson == [kind |-> "invalid"]
Urls == {"u1", "u2"}
SqlResponses ==
    {TransportError, InvalidJson} \cup
    {[kind |-> "json", errors |-> e, data |-> d, next_page_url |-> u] :
        e \in BOOLEAN, d \in {Rows(n) : n \in 0..MaxRows} \cup {NoData},
        u \in Urls \cup {"none"}}

Request(to, token) == [to |-> to, next_page_token |-> token]

Return(n) ==
    /\ pc' = "Done"
    /\ outcome' = [kind |-> "success", rows |-> n, message |-> ""]
ReturnNoResults ==
    /\ pc' = "Done"
    /\ outcome' = [kind |-> "noresults", rows |-> 0,
                   message |-> "SQL query completed with no results"]
Throw(message) ==
    /\ pc' = "Failed"
    /\ outcome' = [kind |-> "error", rows |-> 0, message |-> message]

\* Faulty variant of TableVerdict: the continuation token is looked at before
\* the data.
TableVerdict_TokenFirst(result) ==
    IF result.kind = "error"
    THEN [act |-> "throw", rows |-> 0, token |-> "absent",
          message |-> result.message]
    ELSE LET fields == result.value.fields
         IN  IF fields.next_page_token # "absent"
             THEN [act |-> "poll", rows |-> 0,
                   token |-> fields.next_page_token, message |-> ""]
             ELSE IF fields.data.present /\ fields.data.array
             THEN [act |-> "return", rows |-> fields.data.length,
                   token |-> "absent", message |-> ""]
             ELSE [act |-> "throw", rows |-> 0, token |-> "absent",
                   message |-> "Unexpected response format"]

\* queryTable: what the loop body does with a classified response
TableVerdict(result) ==
    IF result.kind = "error"
    THEN [act |-> "throw", rows |-> 0, token |-> "absent",
          message |-> result.message]
    ELSE LET fields == result.value.fields
         IN  IF fields.data.present /\ fields.data.array
             THEN [act |-> "return", rows |-> fields.data.length,
                   token |-> "absent", message |-> ""]
             ELSE IF fields.next_page_token # "absent"
             THEN [act |-> "poll", rows |-> 0,
                   token |-> fields.next_page_token, message |-> ""]
             ELSE [act |-> "throw", rows |-> 0, token |-> "absent",
                   message |-> "Unexpected response format"]

\* Faulty variant of NextPayload: the sentinel is stored like any token.
NextPayload_Always(old, token) == token

\* if (result.next_page_token !== 'empty_response_poll')
\*   payload.next_page_token = result.next_page_token;
NextPayload(old, token) == IF token # Sentinel THEN token ELSE old

\* queryTable up to its first await: the payload, the first POST
QueryTable ==
    /\ pc = "Idle"
    /\ site' = "table"
    /\ max_polls' = maxPolls
    /\ pollCount' = 0
    /\ payload' = "absent"
    /\ requests' = 1
    /\ sent' = Request("filter", "absent")
    /\ pc' = "Issuing"
    /\ UNCHANGED <<nextPageUrl, waits, outcome>>

\* Faulty variant of TableResult: the delay is started after the last
\* attempt too.
TableResult_WaitsAfterLast(result) ==
    /\ site = "table"
    /\ pc = "Issuing"
    /\ LET verdict == TableVerdict(result)
       IN  IF verdict.act = "throw"
           THEN /\ Throw(verdict.message)
                /\ UNCHANGED <<payload, pollCount, waits>>
           ELSE IF verdict.act = "return"
           THEN /\ Return(verdict.rows)
                /\ UNCHANGED <<payload, pollCount, waits>>
           ELSE /\ payload' = NextPayload(payload, verdict.token)
                /\ waits' = waits + 1
                /\ IF pollCount < max_polls - 1
                   THEN /\ pc' = "WaitingToRetry"
                        /\ UNCHANGED <<pollCount, outcome>>
                   ELSE /\ pollCount' = pollCount + 1
                        /\ Throw("Query timed out")
    /\ UNCHANGED <<site, max_polls, nextPageUrl, requests, sent>>

\* queryTable with the classification of a response: the branch on the
\* result, the delay if attempts remain, the throw after the loop
TableResult(result) ==
    /\ site = "table"
    /\ pc = "Issuing"
    /\ LET verdict == TableVerdict(result)
       IN  IF verdict.act = "throw"
           THEN /\ Throw(verdict.message)
                /\ UNCHANGED <<payload, pollCount, waits>>
           ELSE IF verdict.act = "return"
           THEN /\ Return(verdict.rows)
                /\ UNCHANGED <<payload, pollCount, waits>>
           ELSE /\ payload' = NextPayload(payload, verdict.token)
                /\ IF pollCount < max_polls - 1
                   THEN /\ pc' = "WaitingToRetry"
                        /\ waits' = waits + 1
                        /\ UNCHANGED <<pollCount, outcome>>
                   ELSE /\ pollCount' = pollCount + 1
                        /\ Throw("Query timed out")
                        /\ UNCHANGED waits
    /\ UNCHANGED <<site, max_polls, nextPageUrl, requests, sent>>

\* queryTable with a rejected POST: the catch of line 813
TableReject ==
    /\ site = "table"
    /\ pc = "Issuing"
    /\ Throw("transport error")
    /\ UNCHANGED <<site, max_polls, nextPageUrl, requests, sent, payload,
                   pollCount, waits>>

\* queryTable after client.post settles
TableResponse(response) ==
    IF response.kind = "transport" THEN TableReject
    ELSE TableResult(ParseJsonLinesResponse(response.body))

\* Faulty variant of TableRetry: the POST is issued twice.
TableRetry_TwoPosts ==
    /\ site = "table"
    /\ pc = "WaitingToRetry"
    /\ pollCount' = pollCount + 1
    /\ requests' = requests + 2
    /\ sent' = Request("filter", payload)
    /\ pc' = "Issuing"
    /\ UNCHANGED <<site, max_polls, payload, nextPageUrl, waits, outcome>>

\* queryTable after the delay: pollCount++, the next POST of the payload
TableRetry ==
    /\ site = "table"
    /\ pc = "WaitingToRetry"
    /\ pollCount' = pollCount + 1
    /\ requests' = requests + 1
    /\ sent' = Request("filter", payload)
    /\ pc' = "Issuing"
    /\ UNCHANGED <<site, max_polls, payload, nextPageUrl, waits, outcome>>

\* A response that makes the SQL code throw: a rejected request, text that
\* JSON.parse rejects, a result with errors.
Raises(response) ==
    \/ response.kind \in {"transport", "invalid"}
    \/ response.errors

ErrorOf(response) ==
    IF response.kind = "transport" THEN "transport error"
    ELSE IF response.kind = "invalid" THEN "Invalid JSON response"
    ELSE "SQL query error"

\* result.data && result.data.length > 0
HasRows(response) == response.data.present /\ response.data.length > 0

\* the max_polls a caller passes, or the default
PollArgs == (0..MaxPollsArg) \cup {DefaultMaxPolls}

\* sqlSearch up to its first await: the POST of the query
SqlSearch(n) ==
    /\ pc = "Idle"
    /\ site' = "sql"
    /\ max_polls' = n
    /\ pollCount' = 0
    /\ requests' = 1
    /\ sent' = Request("search", "absent")
    /\ pc' = "Submitting"
    /\ UNCHANGED <<payload, nextPageUrl, waits, outcome>>

\* Faulty variant of LoopHead: the loop test is pollCount <= max_polls.
LoopHead_OneMore(count) ==
    /\ pollCount' = count
    /\ IF count <= max_polls
       THEN /\ pc' = "WaitingToRetry"
            /\ waits' = waits + 1
            /\ UNCHANGED outcome
       ELSE /\ Throw("SQL query timed out")
            /\ UNCHANGED waits

\* The head of the loop of pollSqlResults with pollCount = count: the delay
\* of the next attempt, or the throw after the loop.
LoopHead(count) ==
    /\ pollCount' = count
    /\ IF count < max_polls
       THEN /\ pc' = "WaitingToRetry"
            /\ waits' = waits + 1
            /\ UNCHANGED outcome
       ELSE /\ Throw("SQL query timed out")
            /\ UNCHANGED waits

\* sqlSearch after the POST settles
SqlSubmitResponse(response) ==
    /\ site = "sql"
    /\ pc = "Submitting"
    /\ IF Raises(response)
       THEN /\ Throw(ErrorOf(response))
            /\ UNCHANGED <<nextPageUrl, pollCount, waits>>
       ELSE IF HasRows(response)
       THEN /\ Return(response.data.length)
            /\ UNCHANGED <<nextPageUrl, pollCount, waits>>
       ELSE IF response.next_page_url = "none"
       THEN /\ ReturnNoResults
            /\ UNCHANGED <<nextPageUrl, pollCount, waits>>
       ELSE /\ nextPageUrl' = response.next_page_url
            /\ LoopHead(0)
    /\ UNCHANGED <<site, max_polls, payload, requests, sent>>

\* Faulty variant of SqlPollTimer: every GET goes to the same URL.
SqlPollTimer_SameUrl ==
    /\ site = "sql"
    /\ pc = "WaitingToRetry"
    /\ requests' = requests + 1
    /\ sent' = Request("u1", "absent")
    /\ pc' = "Issuing"
    /\ UNCHANGED <<site, pollCount, max_polls, payload, nextPageUrl, waits,
                   outcome>>

\* pollSqlResults after the delay: the GET of nextPageUrl
SqlPollTimer ==
    /\ site = "sql"
    /\ pc = "WaitingToRetry"
    /\ requests' = requests + 1
    /\ sent' = Request(nextPageUrl, "absent")
    /\ pc' = "Issuing"
    /\ UNCHANGED <<site, pollCount, max_polls, payload, nextPageUrl, waits,
                   outcome>>

\* Faulty variant of SqlPollResponse: an error on the last attempt is
\* swallowed like any other.
SqlPollResponse_SwallowsLast(response) ==
    /\ site = "sql"
    /\ pc = "Issuing"
    /\ IF Raises(response)
       THEN /\ LoopHead(pollCount + 1)
            /\ UNCHANGED nextPageUrl
       ELSE IF HasRows(response)
       THEN /\ Return(response.data.length)
            /\ UNCHANGED <<nextPageUrl, pollCount, waits>>
       ELSE IF /\ response.data.present
               /\ response.data.length = 0
               /\ response.next_page_url = "none"
       THEN /\ ReturnNoResults
            /\ UNCHANGED <<nextPageUrl, pollCount, waits>>
       ELSE IF response.next_page_url # "none"
       THEN /\ nextPageUrl' = response.next_page_url
            /\ LoopHead(pollCount + 1)
       ELSE /\ ReturnNoResults
            /\ UNCHANGED <<nextPageUrl, pollCount, waits>>
    /\ UNCHANGED <<site, max_polls, payload, requests, sent>>

\* pollSqlResults after the GET settles: the try block and its catch
SqlPollResponse(response) ==
    /\ site = "sql"
    /\ pc = "Issuing"
    /\ IF Raises(response)
       THEN /\ IF pollCount < max_polls - 1
               THEN LoopHead(pollCount + 1)
               ELSE /\ Throw(ErrorOf(response))
                    /\ UNCHANGED <<pollCount, waits>>
            /\ UNCHANGED nextPageUrl
       ELSE IF HasRows(response)
       THEN /\ Return(response.data.length)
            /\ UNCHANGED <<nextPageUrl, pollCount, waits>>
       ELSE IF /\ response.data.present
               /\ response.data.length = 0
               /\ response.next_page_url = "none"
       THEN /\ ReturnNoResults
            /\ UNCHANGED <<nextPageUrl, pollCount, waits>>
       ELSE IF response.next_page_url # "none"
       THEN /\ nextPageUrl' = response.next_page_url
            /\ LoopHead(pollCount + 1)
       ELSE /\ ReturnNoResults
            /\ UNCHANGED <<nextPageUrl, pollCount, waits>>
    /\ UNCHANGED <<site, max_polls, payload, requests, sent>>

PollInit ==
    /\ BridgeInit
    /\ NoStream
    /\ NoBody
    /\ NoPoll
    /\ NoTool
    /\ NoNetwork

notPollVars == <<bridgeVars, frameVars, classVars, toolVars, netVars>>

PollNext ==
    \/ QueryTable /\ UNCHANGED notPollVars
    \/ \E response \in TableResponses :
          TableResponse(response) /\ UNCHANGED notPollVars
    \/ TableRetry /\ UNCHANGED notPollVars
    \/ \E n \in PollArgs : SqlSearch(n) /\ UNCHANGED notPollVars
    \/ \E response \in SqlResponses :
          SqlSubmitResponse(response) /\ UNCHANGED notPollVars
    \/ SqlPollTimer /\ UNCHANGED notPollVars
    \/ \E response \in SqlResponses :
          SqlPollResponse(response) /\ UNCHANGED notPollVars

PollSpec == PollInit /\ [][PollNext]_vars

\* Every request settles (the client has a timeout of 30 s) and every delay
\* ends.
PollFairSpec == PollSpec /\ WF_vars(PollNext)

\* ------------------------------------------------------ call-tool handler
KnownTools == {"list_collections", "list_tables", "get_schema_fields",
               "query_table", "count_rows", "sql_search"}
\* the names a caller may send: the known ones and some that are not
ToolNames == KnownTools \cup {"Query_Table", "delete_table"}

\* Faulty variant of Dispatch: the default case lists the collections.
Dispatch_DefaultList(name) ==
    CASE name = "list_collections" -> "listCollections"
      [] name = "list_tables" -> "listTables"
      [] name = "get_schema_fields" -> "getSchemaFields"
      [] name = "query_table" -> "queryTable"
      [] name = "count_rows" -> "countRows"
      [] name = "sql_search" -> "sqlSearch"
      [] OTHER -> "listCollections"

\* switch (name): the method a name selects, or the throw of the default
Dispatch(name) ==
    CASE name = "list_collections" -> "listCollections"
      [] name = "list_tables" -> "listTables"
      [] name = "get_schema_fields" -> "getSchemaFields"
      [] name = "query_table" -> "queryTable"
      [] name = "count_rows" -> "countRows"
      [] name = "sql_search" -> "sqlSearch"
      [] OTHER -> "throw"

GetTools == {"listCollections", "listTables", "getSchemaFields"}

\* A response to the GET of listCollections, listTables or getSchemaFields:
\* the request is rejected, the body has the shape the tool expects (an
\* array, a schema with properties), or it has not.
Expected == [kind |-> "expected"]
Unexpected == [kind |-> "unexpected"]
GetResponses == {TransportError, Expected, Unexpected}

\* listCollections, listTables, getSchemaFields up to the await: the GET
GetTool(method) ==
    /\ pc = "Idle"
    /\ site' = method
    /\ requests' = 1
    /\ sent' = Request("get", "absent")
    /\ pc' = "Issuing"
    /\ UNCHANGED <<pollCount, max_polls, payload, nextPageUrl, waits,
                   outcome>>

\* the same after the GET settles
GetResponse(response) ==
    /\ site \in GetTools
    /\ pc = "Issuing"
    /\ IF response.kind = "transport" THEN Throw("transport error")
       ELSE IF response.kind = "unexpected"
       THEN Throw("Expected list but got something else")
       ELSE Return(0)
    /\ UNCHANGED <<site, pollCount, max_polls, payload, nextPageUrl,
                   requests, sent, waits>>

\* countRows up to the await: the POST
CountRows ==
    /\ pc = "Idle"
    /\ site' = "countRows"
    /\ requests' = 1
    /\ sent' = Request("count", "absent")
    /\ pc' = "Issuing"
    /\ UNCHANGED <<pollCount, max_polls, payload, nextPageUrl, waits,
                   outcome>>

\* countRows after the POST settles: the classifier, result.count || 0
CountResponse(response) ==
    /\ site = "countRows"
    /\ pc = "Issuing"
    /\ IF response.kind = "transport" THEN Throw("transport error")
       ELSE LET result == ParseJsonLinesResponse(response.body)
            IN  IF result.kind = "error" THEN Throw(result.message)
                ELSE Return(0)
    /\ UNCHANGED <<site, pollCount, max_polls, payload, nextPageUrl,
                   requests, sent, waits>>

\* Faulty variant of AwaitTool: the handler has no catch.
AwaitTool_NoCatch ==
    /\ reply' = IF pc' = "Done"
                THEN [kind |-> "result", prefix |-> "",
                      message |-> outcome'.kind]
                ELSE IF pc' = "Failed"
                THEN [kind |-> "error", prefix |-> "",
                      message |-> outcome'.message]
                ELSE reply

\* return await this.method(args) and the catch around it: what the method
\* returns is the reply, what it throws becomes a reply with the text
\* `Error: ${error.message}`
AwaitTool ==
    /\ reply' = IF pc' = "Done"
                THEN [kind |-> "result", prefix |-> "",
                      message |-> outcome'.kind]
                ELSE IF pc' = "Failed"
                THEN [kind |-> "result", prefix |-> "Error: ",
                      message |-> outcome'.message]
                ELSE reply

\* The call-tool handler up to its first await.  A method given arguments
\* it cannot use (none, or no network) throws a TypeError before it issues
\* a request.
CallTool(name, n, usable) ==
    /\ tool = "none"
    /\ pc = "Idle"
    /\ tool' = name
    /\ LET method == Dispatch(name)
       IN  IF method = "throw"
           THEN /\ Throw("Unknown tool")
                /\ UNCHANGED <<site, pollCount, max_polls, payload,
                               nextPageUrl, requests, sent, waits>>
           ELSE IF ~usable
           THEN /\ Throw("TypeError")
                /\ UNCHANGED <<site, pollCount, max_polls, payload,
                               nextPageUrl, requests, sent, waits>>
           ELSE IF method = "queryTable" THEN QueryTable
           ELSE IF method = "sqlSearch" THEN SqlSearch(n)
           ELSE IF method = "countRows" THEN CountRows
           ELSE GetTool(method)
    /\ AwaitTool

ToolInit ==
    /\ BridgeInit
    /\ NoStream
    /\ NoBody
    /\ NoPoll
    /\ NoTool
    /\ NoNetwork

notToolVars == <<bridgeVars, frameVars, classVars, netVars>>

ToolNext ==
    \/ \E name \in ToolNames, n \in PollArgs, usable \in BOOLEAN :
          CallTool(name, n, usable) /\ UNCHANGED notToolVars
    \/ \E response \in GetResponses :
          /\ GetResponse(response)
          /\ AwaitTool
          /\ UNCHANGED <<tool, notToolVars>>
    \/ \E response \in TableResponses :
          /\ CountResponse(response)
          /\ AwaitTool
          /\ UNCHANGED <<tool, notToolVars>>
    \/ \E response \in TableResponses :
          /\ TableResponse(response)
          /\ AwaitTool
          /\ UNCHANGED <<tool, notToolVars>>
    \/ TableRetry /\ AwaitTool /\ UNCHANGED <<tool, notToolVars>>
    \/ \E response \in SqlResponses :
          /\ SqlSubmitResponse(response)
          /\ AwaitTool
          /\ UNCHANGED <<tool, notToolVars>>
    \/ SqlPollTimer /\ AwaitTool /\ UNCHANGED <<tool, notToolVars>>
    \/ \E response \in SqlResponses :
          /\ SqlPollResponse(response)
          /\ AwaitTool
          /\ UNCHANGED <<tool, notToolVars>>

ToolSpec == ToolInit /\ [][ToolNext]_vars

\* Every request settles and every delay ends.
ToolFairSpec == ToolSpec /\ WF_vars(ToolNext)

\* ------------------------------------------------------ network addresses
\* A string is given by its pieces: each "/" and ":" by itself, and each
\* longest run of other characters as one piece.
Slash == "/"
Colon == ":"
Http == <<"http", Colon, Slash, Slash>>
Https == <<"https", Colon, Slash, Slash>>

ShortNames == {"hifisolves", "neuroscience", "asap", "parkinsons",
               "biomedical", "viral", "targetals"}
knownNetworks ==
    [name \in ShortNames |->
        CASE name = "hifisolves" -> "hifisolves.org"
          [] name = "neuroscience" -> "neuroscience.ai"
          [] name = "asap" -> "cloud.parkinsonsroadmap.org"
          [] name = "parkinsons" -> "cloud.parkinsonsroadmap.org"
          [] name = "biomedical" -> "biomedical.ai"
          [] name = "viral" -> "viral.ai"
          [] name = "targetals" -> "dataportal.targetals.org"]
\* names every object literal inherits from Object.prototype; their values
\* are not strings
Inherited == {"constructor", "toString", "__proto__"}

\* the pieces a network argument is made of
Pieces == {Slash, Colon, "http", "https", "viral", "asap", "constructor",
           "x.org"}
Words == Pieces \ {Slash, Colon}

RECURSIVE PieceSeqs(_)
PieceSeqs(n) ==
    IF n = 0 THEN {<<>>}
    ELSE LET shorter == PieceSeqs(n - 1)
         IN  shorter \cup {Append(s, c) : s \in shorter, c \in Pieces}

\* the strings: no two runs of other characters side by side
Addresses ==
    {s \in PieceSeqs(MaxAddr) :
        \A i \in 1..(Len(s) - 1) : ~(s[i] \in Words /\ s[i + 1] \in Words)}

\* String.prototype.startsWith
StartsWith(s, prefix) ==
    /\ Len(s) >= Len(prefix)
    /\ SubSeq(s, 1, Len(prefix)) = prefix

\* network.replace(/\/$/, ''): one slash at the end is removed
StripSlash(s) ==
    IF s # <<>> /\ s[Len(s)] = Slash THEN SubSeq(s, 1, Len(s) - 1) ELSE s

\* network in knownNetworks: own and inherited property names
In(s, names) == Len(s) = 1 /\ s[1] \in names

\* getNetworkUrl(network)
GetNetworkUrl(s) ==
    IF In(s, Inherited)
    THEN \* the value looked up is not a string: startsWith is undefined
         Thrown("TypeError")
    ELSE LET host == IF In(s, ShortNames) THEN <<knownNetworks[s[1]]>>
                     ELSE s
             url == IF ~StartsWith(host, Http) /\ ~StartsWith(host, Https)
                    THEN Https \o host
                    ELSE host
         IN  Returned(StripSlash(url))

NetworkInit ==
    /\ BridgeInit
    /\ NoStream
    /\ NoBody
    /\ NoPoll
    /\ NoTool
    /\ network \in Addresses
    /\ resolved = NotResolved

\* createHttpClient: baseURL: this.getNetworkUrl(network)
Resolve ==
    /\ resolved = NotResolved
    /\ resolved' = GetNetworkUrl(network)
    /\ UNCHANGED <<bridgeVars, frameVars, classVars, pollVars, toolVars,
                   network>>

NetworkNext == Resolve

NetworkSpec == NetworkInit /\ [][NetworkNext]_vars

\* ================================================================= properties
Listed(sessions) == {e.id : e \in sessions}
Range(q) == {q[i] : i \in 1..Len(q)}

\* C1: a Send on an id that is not in the session table is answered 404
\* (NotFound); the step writes to no worker and changes no session, no
\* table entry and no waiting request.
C1_SendUnknownIsNotFound ==
    [][\A r \in Rids, id \in Ids, hasMessage \in BOOLEAN :
          (SendMessage(r, id, hasMessage) /\ ~Known(id)) =>
              /\ res'.op = "message"
              /\ res'.status = 404
              /\ res'.sessionId = id
              /\ UNCHANGED <<activeSessions, procVars, reqs>>]_vars

C1_Witness ==
    /\ res.op = "message"
    /\ res.status = 404
    /\ ~Known(res.sessionId)
    /\ Live # {}

\* the id of the session the step just taken closed with success, if any
JustClosed == IF res.op = "close" /\ res.status = 200 THEN {res.sessionId}
              ELSE {}

\* C3: once Close(id) has succeeded, id is out of the table; a list taken
\* next does not hold it and a Send to it next is answered 404; and an id
\* that is out of the table comes back only by a creation under that id.
C3_ClosedIsGone ==
    [][/\ \A id \in Ids : (CloseSession(id) /\ Known(id)) =>
              id \notin Listed(SessionList')
       /\ \A id \in JustClosed :
              /\ ListSessions => id \notin Listed(res'.sessions)
              /\ \A r \in Rids, hasMessage \in BOOLEAN :
                    SendMessage(r, id, hasMessage) =>
                        res'.op = "message" /\ res'.status = 404
       /\ \A id \in Ids : (~Known(id) /\ Known(id)') =>
              \/ OpenSession /\ res'.sessionId = id
              \/ \E r \in Rids : PostMessages(r, id, TRUE)]_vars

C3_Witness ==
    /\ res.op = "close"
    /\ res.status = 200
    /\ activeSessions # <<>>
    /\ \E r \in Rids : reqs[r].st = "wait"

\* C4: a Close of the id that the step just taken closed with success is
\* answered 404 and changes neither the table nor any worker.
C4_SecondCloseIsNotFound ==
    [][\A id \in JustClosed :
          CloseSession(id) =>
              /\ res'.op = "close"
              /\ res'.status = 404
              /\ UNCHANGED <<activeSessions, procVars>>]_vars

C4_Witness ==
    /\ res.op = "close"
    /\ res.status = 404
    /\ \E p \in Pids : pstate[p] = "killed" /\ psid[p] = res.sessionId

\* C5: no two live worker processes belong to the same session id.
C5_OneLiveProcessPerId ==
    \A p \in Live, q \in Live : p # q => psid[p] # psid[q]

\* C6: a session that has been destroyed (its entry is out of the table, or
\* the wrapper has shut down) has had its worker terminated.
C6_DestroyedIsTerminated ==
    \A p \in Spawned : (~InTable(p) \/ ~running) => pstate[p] # "live"

\* C7: on a session whose Sends never overlapped, a successful Send returns
\* the reply to its own message.
C7_SerialSendGetsOwnReply ==
    (res.op = "reply" /\ res.status = 200 /\ res.serial) =>
        res.body = res.message

\* C9: while the wrapper runs, the list holds exactly the ids of the table,
\* each flagged active, and every entry of the table refers to a live worker.
C9_ListIsTableAndLive ==
    running =>
        /\ Listed(SessionList) = DOMAIN activeSessions
        /\ \A e \in SessionList : e.active
        /\ res.op = "list" => res.sessions = SessionList
        /\ \A id \in DOMAIN activeSessions :
              pstate[activeSessions[id]] = "live"

C9_Witness ==
    /\ res.op = "list"
    /\ res.sessions # {}
    /\ \E p \in Pids : pstate[p] = "exited"

\* the live worker processes created under session id
LiveFor(id) == {p \in Live : psid[p] = id}

\* C11: a POST to the messages endpoint that names an id outside the table
\* spawns one worker and enters one session for it, and that worker is then
\* the only live one of the id, also while an earlier such request still
\* waits; a POST that names an id in the table spawns nothing.
C11_LazyCreationSpawnsOne ==
    [][\A r \in Rids, id \in Ids :
          PostMessages(r, id, TRUE) =>
              IF Known(id)
              THEN /\ Spawned' = Spawned
                   /\ activeSessions' = activeSessions
              ELSE /\ Cardinality(Spawned' \ Spawned) = 1
                   /\ DOMAIN activeSessions' = DOMAIN activeSessions \cup {id}
                   /\ Cardinality(LiveFor(id)') = 1]_vars

\* the messages of a whole stream: its newline-terminated lines that are not
\* blank and parse, in stream order
StreamMessages(s) == PushLines(AllButLast(Split(DataToString(s))), <<>>)

\* C12: however the stream is cut into chunks, once all of it has arrived
\* the receive queue holds the messages of the stream's parseable non-blank
\* newline-terminated lines, in stream order.
C12_ChunkingDoesNotMatter ==
    fed = Len(stream) => responses[1] = StreamMessages(stream)

SingleByte(s) == \A i \in 1..Len(s) : s[i] \notin {LeadByte, ContByte}

\* C13: after every stream-read callback the buffer holds no newline; it is
\* what was received after the last newline.
C13_BufferHasNoNewline ==
    /\ NL \notin Range(buffer[1])
    /\ SingleByte(SubSeq(stream, 1, fed)) =>
          buffer[1] = Pop(Split(SubSeq(stream, 1, fed)))

C13_Witness ==
    /\ fed = Len(stream)
    /\ buffer[1] # <<>>
    /\ Len(responses[1]) = 1

\* a line that parses to an object with a data field
HasData(line) ==
    /\ LineParses(line)
    /\ line.value.type = "object"
    /\ "data" \in Keys(line.value)

DataLines(body) == {i \in 1..Len(body) : HasData(body[i])}
LastDataLine(body) ==
    CHOOSE i \in DataLines(body) : \A j \in DataLines(body) : j <= i

\* C14: for a body in which some parsed line holds a data field, the
\* classifier returns the object of the last such line, whatever lines come
\* before or after it.
C14_LastDataLineWins ==
    (classified # NotClassified /\ DataLines(rawText) # {}) =>
        classified = Returned(rawText[LastDataLine(rawText)].value)

EmptyObjectLine ==
    JsonLine(Object([data |-> NoData, next_page_token |-> "absent",
                     pagination |-> "absent"]))

\* C15: for a body of one or more lines that all parse to the empty object,
\* classification fails.
C15_AllEmptyObjectsFail ==
    (/\ classified # NotClassified
     /\ rawText # <<>>
     /\ \A i \in 1..Len(rawText) : rawText[i] = EmptyObjectLine) =>
        classified = Thrown("No data or next_page_token found in response")

C15_Witness ==
    /\ classified.kind = "error"
    /\ Len(rawText) = MaxLines
    /\ \A i \in 1..Len(rawText) : rawText[i] = EmptyObjectLine

NotBad(line) == line.text # "bad"

\* C16: if some line of the body parses, the classification is that of the
\* body without its unparsable lines; if none parses, classification fails,
\* with "No valid JSON objects" when the body has a line that is not blank.
C16_MalformedLinesAreNotFatal ==
    classified # NotClassified =>
        IF \E i \in 1..Len(rawText) : LineParses(rawText[i])
        THEN classified = ParseJsonLinesResponse(SelectSeq(rawText, NotBad))
        ELSE /\ classified.kind = "error"
             /\ (\E i \in 1..Len(rawText) : NotBlank(rawText[i])) =>
                   classified =
                       Thrown("No valid JSON objects found in response")

C16_Witness ==
    /\ classified.kind = "value"
    /\ Len(rawText) = 3
    /\ rawText[1] = BadLine
    /\ rawText[3] = BadLine

\* the classifications of the table-query responses
TableResults == {ParseJsonLinesResponse(b) : b \in Bodies(MaxBodyLines)}
\* DataRows: the classifier returned an object whose data field holds rows
IsDataRows(result) ==
    /\ result.kind = "value"
    /\ result.value.fields.data.present
    /\ result.value.fields.data.array
\* Continuation: it returned an object with a token and without data rows
IsContinuation(result) ==
    /\ result.kind = "value"
    /\ ~IsDataRows(result)
    /\ result.value.fields.next_page_token # "absent"
\* Empty: it returned an object with neither a data field nor a token
IsEmpty(result) ==
    /\ result.kind = "value"
    /\ ~result.value.fields.data.present
    /\ result.value.fields.next_page_token = "absent"

\* a SQL response that parsed and reports no errors
Clean(response) ==
    /\ response.kind \notin {"transport", "invalid"}
    /\ ~response.errors

C18_SentinelKeepsPayload ==
    [][/\ (site = "table" /\ pc = "Issuing") =>
              sent.next_page_token = payload
       /\ \A result \in TableResults :
              (TableResult(result) /\ IsContinuation(result)) =>
                  LET token == result.value.fields.next_page_token
                  IN  payload' = IF token = Sentinel
                                 THEN sent.next_page_token
                                 ELSE token
       /\ TableRetry =>
              /\ sent' = Request("filter", payload)
              /\ payload' = payload]_vars

C18_Witness ==
    /\ site = "table"
    /\ pc = "Issuing"
    /\ sent.next_page_token = "t1"
    /\ requests = 4

\* C19: a response classified Empty with no continuation ends the query in
\* Done with a "no results" outcome, in the table query and in the SQL
\* search.
C19_EmptyIsNoResults ==
    [][/\ \A result \in TableResults :
              (TableResult(result) /\ IsEmpty(result)) =>
                  pc' = "Done" /\ outcome'.kind = "noresults"
       /\ \A response \in SqlResponses :
              (/\ SqlSubmitResponse(response) \/ SqlPollResponse(response)
               /\ Clean(response)
               /\ ~HasRows(response)
               /\ response.next_page_url = "none") =>
                  pc' = "Done" /\ outcome'.kind = "noresults"]_vars

\* C20: a transport error on an attempt that is not the last allowed one is
\* swallowed: the query does not fail and goes on to its next attempt, in
\* the table query and in the SQL search.
C20_TransportErrorIsRetried ==
    [][(/\ TableReject \/ SqlPollResponse(TransportError)
        /\ pollCount < max_polls - 1) =>
           pc' = "WaitingToRetry"]_vars

\* ParseFailure: the body could not be classified
ParseFailures ==
    {Thrown("Empty response received"),
     Thrown("No valid JSON objects found in response"),
     Thrown("No data or next_page_token found in response")}

\* C21: a ParseFailure on any attempt, the last or not, fails the query in
\* the same step with that error and no further request is issued, in the
\* table query and in the SQL search.
C21_ParseFailureIsSurfaced ==
    [][/\ \A result \in TableResults \cap ParseFailures :
              TableResult(result) =>
                  /\ pc' = "Failed"
                  /\ outcome'.message = result.message
                  /\ UNCHANGED <<requests, sent, waits>>
       /\ (SqlSubmitResponse(InvalidJson) \/ SqlPollResponse(InvalidJson)) =>
              /\ pc' = "Failed"
              /\ outcome'.message = "Invalid JSON response"
              /\ UNCHANGED <<requests, sent, waits>>
       /\ pc = "Failed" => UNCHANGED <<pc, requests, sent, waits>>]_vars

\* the attempts of the poll cycle used so far: the POSTs of a table query,
\* the GETs of a SQL search
Attempts == IF site = "sql" THEN requests - 1 ELSE requests
TimedOut == outcome.message \in {"Query timed out", "SQL query timed out"}

\* C22: the attempts used never exceed the attempts allowed; a continuation
\* on an attempt that is not the last allowed leads to the next attempt and
\* one on the last allowed attempt ends the cycle in Failed with a timeout,
\* so that a timeout comes after exactly the allowed number of attempts.
C22_AttemptsAreBounded ==
    /\ [](/\ site # "none" => Attempts <= max_polls
          /\ pc = "Issuing" => Attempts = pollCount + 1
          /\ TimedOut => pc = "Failed" /\ Attempts = max_polls)
    /\ [][/\ \A result \in TableResults :
                (TableResult(result) /\ IsContinuation(result)) =>
                    IF Attempts < max_polls
                    THEN pc' = "WaitingToRetry"
                    ELSE pc' = "Failed" /\ outcome'.message = "Query timed out"
          /\ \A response \in SqlResponses :
                (/\ SqlSubmitResponse(response) \/ SqlPollResponse(response)
                 /\ Clean(response)
                 /\ ~HasRows(response)
                 /\ response.next_page_url # "none") =>
                    IF Attempts < max_polls
                    THEN pc' = "WaitingToRetry"
                    ELSE /\ pc' = "Failed"
                         /\ outcome'.message = "SQL query timed out"
          /\ (pc = "WaitingToRetry" /\ pc' # pc) =>
                pc' = "Issuing" /\ Attempts' = Attempts + 1]_vars

C22_Witness ==
    /\ site = "table"
    /\ pc = "Failed"
    /\ outcome.message = "Query timed out"
    /\ requests = maxPolls

\* C23: whatever the responses, a poll cycle that has started ends in Done
\* or Failed; it starts at most max_polls delays, and a table query starts
\* none after its last attempt.
C23_PollCycleTerminates ==
    /\ (pc \in {"Submitting", "Issuing", "WaitingToRetry"}) ~>
           (pc \in {"Done", "Failed"})
    /\ [](/\ waits <= max_polls
          /\ site = "table" => waits <= max_polls - 1)

C23_Witness ==
    /\ site = "sql"
    /\ pc = "Failed"
    /\ max_polls = MaxPollsArg
    /\ waits = max_polls

\* C24: in a table query the delays started so far count the continuation
\* responses received so far; a response with an array of n rows that
\* comes after k of them, k below the attempts allowed, ends the query in
\* Done reporting n rows, with k + 1 requests issued in all.
C24_RowsAfterContinuations ==
    [][site = "table" =>
         /\ waits' # waits =>
               /\ waits' = waits + 1
               /\ \E result \in TableResults :
                     TableResult(result) /\ IsContinuation(result)
         /\ \A result \in TableResults :
               (TableResult(result) /\ IsDataRows(result)) =>
                   /\ waits < max_polls
                   /\ pc' = "Done"
                   /\ outcome'.kind = "success"
                   /\ outcome'.rows = result.value.fields.data.length
                   /\ requests' = waits + 1]_vars

C24_Witness ==
    /\ site = "table"
    /\ pc = "Done"
    /\ outcome.kind = "success"
    /\ outcome.rows = 1
    /\ waits = maxPolls - 1
    /\ requests = maxPolls

\* C25: every tool call, whatever its name and whatever its method does,
\* is answered, and with a result of the protocol, never with a protocol
\* error; when the method failed the result is the text "Error: " followed
\* by the message of the error.
C25_ToolCallAlwaysReplies ==
    /\ (tool # "none") ~> (reply.kind = "result")
    /\ [](/\ reply.kind # "error"
          /\ pc = "Failed" =>
                reply = [kind |-> "result", prefix |-> "Error: ",
                         message |-> outcome.message]
          /\ pc = "Done" => reply.kind = "result" /\ reply.prefix = "")

C25_Witness ==
    /\ tool = "sql_search"
    /\ reply.kind = "result"
    /\ reply.prefix = "Error: "
    /\ reply.message = "SQL query timed out"

\* C26: a call whose name is none of the six tools fails with the unknown-
\* tool error in the step that receives it, and no request is ever issued
\* for it.
C26_UnknownToolIssuesNothing ==
    /\ [][\A name \in ToolNames \ KnownTools, n \in PollArgs,
            usable \in BOOLEAN :
              CallTool(name, n, usable) =>
                  /\ pc' = "Failed"
                  /\ outcome'.message = "Unknown tool"
                  /\ reply'.message = "Unknown tool"
                  /\ requests' = 0]_vars
    /\ [](tool \notin KnownTools => requests = 0)

C26_Witness ==
    /\ tool = "Query_Table"
    /\ pc = "Failed"
    /\ reply.message = "Unknown tool"
    /\ requests = 0

\* C27: when the spawn of the worker fails during Open, the caller is
\* answered with an internal error (status 500), no table entry refers to
\* the process that did not start, and the wrapper keeps running.
C27_SpawnFailureIsReported ==
    [][/\ \A streams \in BOOLEAN :
              OpenSessionSpawnFails(streams) =>
                  /\ res'.op = "open"
                  /\ res'.status = 500
                  /\ \A id \in DOMAIN activeSessions' :
                        pstate'[activeSessions'[id]] # "failed"
       /\ \A p \in Pids : SpawnErrorEvent(p) => running']_vars

\* C28: a Send that succeeds on a session on which two Sends have
\* overlapped returns the reply to its own message, not the reply to the
\* message of the other Send.
C28_OverlappedSendGetsOwnReply ==
    (res.op = "reply" /\ res.status = 200 /\ ~res.serial) =>
        res.body = res.message

\* C29: the exit listener of a worker removes no entry but the one of its
\* own session, so that while the wrapper runs every live worker has an
\* entry in the session table.
C29_ExitRemovesOnlyItsOwnSession ==
    /\ [][\A p \in Pids :
              ProcessExit(p) =>
                  \A id \in DOMAIN activeSessions :
                      activeSessions[id] # p =>
                          /\ id \in DOMAIN activeSessions'
                          /\ activeSessions'[id] = activeSessions[id]]_vars
    /\ [](running => \A p \in Live : InTable(p))

\* the attempt under way is the last one allowed
FinalAttempt == pc = "Issuing" /\ pollCount = max_polls - 1

\* C30: on the last allowed attempt a transport error or a ParseFailure
\* ends the cycle in Failed with that error, neither in Done nor in a
\* timeout, in the table query and in the SQL search.
C30_FinalAttemptErrorFails ==
    [][FinalAttempt =>
         /\ TableReject =>
               pc' = "Failed" /\ outcome'.message = "transport error"
         /\ \A result \in TableResults \cap ParseFailures :
               TableResult(result) =>
                   pc' = "Failed" /\ outcome'.message = result.message
         /\ \A response \in {TransportError, InvalidJson} :
               SqlPollResponse(response) =>
                   /\ pc' = "Failed"
                   /\ outcome'.kind = "error"
                   /\ outcome'.message = ErrorOf(response)]_vars

C30_Witness ==
    /\ site = "sql"
    /\ pc = "Failed"
    /\ outcome.message = "Invalid JSON response"
    /\ max_polls = MaxPollsArg
    /\ requests = max_polls + 1

\* RemoteError: a parsed SQL response that reports errors
RemoteErrors ==
    {response \in SqlResponses : response.kind = "json" /\ response.errors}

\* C31: a SQL response that reports errors, to the submission or to any
\* poll, fails the search with the remote error in the same step, and no
\* further request is issued.
C31_RemoteErrorIsNotRetried ==
    [][\A response \in RemoteErrors :
          (SqlSubmitResponse(response) \/ SqlPollResponse(response)) =>
              /\ pc' = "Failed"
              /\ outcome'.message = "SQL query error"
              /\ UNCHANGED <<requests, sent, waits>>]_vars

\* a SQL response that asks for another poll: clean, no rows, a next URL
Continues(response) ==
    /\ Clean(response)
    /\ ~HasRows(response)
    /\ response.next_page_url # "none"

\* C32: every poll GET of a SQL search goes to the URL held in nextPageUrl;
\* a response that carries a new URL puts it there before the next attempt,
\* and an attempt whose error is swallowed leaves it as it was.
C32_PollFollowsLatestUrl ==
    [][/\ SqlPollTimer => sent'.to = nextPageUrl /\ nextPageUrl' = nextPageUrl
       /\ (site = "sql" /\ pc = "Issuing") => sent.to = nextPageUrl
       /\ \A response \in SqlResponses :
              (/\ SqlSubmitResponse(response) \/ SqlPollResponse(response)
               /\ Continues(response)) =>
                  nextPageUrl' = response.next_page_url
       /\ \A response \in SqlResponses :
              (/\ SqlPollResponse(response)
               /\ Raises(response)
               /\ pc' = "WaitingToRetry") =>
                  nextPageUrl' = nextPageUrl]_vars

C32_Witness ==
    /\ site = "sql"
    /\ pc = "Issuing"
    /\ sent.to = "u2"
    /\ nextPageUrl = "u2"
    /\ requests = 3
    /\ pollCount = 1

\* a line that parses to an object with a continuation-token field
HasToken(line) ==
    /\ LineParses(line)
    /\ line.value.type = "object"
    /\ "next_page_token" \in Keys(line.value)
\* a line that parses to a value with at least one field
HasField(line) == LineParses(line) /\ NonEmpty(line.value)

LastLine(body, Test(_)) ==
    LET hits == {i \in 1..Len(body) : Test(body[i])}
    IN  body[CHOOSE i \in hits : \A j \in hits : j <= i]

\* C33: for a body in which no parsed line holds a data field, the
\* classifier returns the object of the last line that holds a
\* continuation token; if no line holds either, it returns the object of
\* the last line that has a field.
C33_TokenThenAnyField ==
    (classified # NotClassified /\ DataLines(rawText) = {}) =>
        IF \E i \in 1..Len(rawText) : HasToken(rawText[i])
        THEN classified = Returned(LastLine(rawText, HasToken).value)
        ELSE (\E i \in 1..Len(rawText) : HasField(rawText[i])) =>
                classified = Returned(LastLine(rawText, HasField).value)

\* the step just taken answered a Send with 504 on a session still in the
\* table
JustTimedOut ==
    IF /\ res.op = "reply"
       /\ res.status = 504
       /\ Known(res.sessionId)
       /\ activeSessions[res.sessionId] = res.session
    THEN {res.sessionId}
    ELSE {}

\* C34: the step in which a Send ends with 504 changes neither the table
\* nor the state of a worker that runs; on an id that was in the table, a
\* Send taken next is accepted and a Close taken next succeeds.
C34_TimeoutLeavesSession ==
    [][/\ \A r \in Rids :
              (SendPoll(r) /\ res'.status = 504) =>
                  /\ activeSessions' = activeSessions
                  /\ Live' = Live
                  /\ stdin' = stdin
       /\ \A id \in JustTimedOut :
              /\ \A r \in Rids :
                    SendMessage(r, id, TRUE) =>
                        /\ reqs'[r].st = "wait"
                        /\ reqs'[r].session = activeSessions[id]
              /\ CloseSession(id) => res'.status = 200]_vars

C34_Witness ==
    /\ res.op = "reply"
    /\ res.status = 504
    /\ res.worker = "live"
    /\ JustTimedOut # {}

\* C35: a Send rejected with 404 (unknown id) or 400 (known id, no message)
\* changes no table entry, no queue, no buffer and no waiting request and
\* writes to no worker; an unknown id is answered 404 also when the message
\* is missing.
C35_RejectedSendChangesNothing ==
    [][\A r \in Rids, id \in Ids, hasMessage \in BOOLEAN :
          (SendMessage(r, id, hasMessage) /\ (~Known(id) \/ ~hasMessage)) =>
              /\ res'.op = "message"
              /\ res'.status = IF Known(id) THEN 400 ELSE 404
              /\ UNCHANGED <<activeSessions, buffer, responses, stdin,
                             pstate, reqs>>]_vars

C35_Witness ==
    /\ res.op = "message"
    /\ res.status = 400
    /\ Known(res.sessionId)
    /\ responses[activeSessions[res.sessionId]] # <<>>

\* the processes other than p, and the table entries that refer to them,
\* are as they were
OthersUntouched(p) ==
    \A q \in Pids \ {p} :
        /\ pstate'[q] = pstate[q]
        /\ buffer'[q] = buffer[q]
        /\ responses'[q] = responses[q]
        /\ stdin'[q] = stdin[q]
        /\ \A id \in DOMAIN activeSessions :
              activeSessions[id] = q =>
                  /\ id \in DOMAIN activeSessions'
                  /\ activeSessions'[id] = q

\* C36: an Open, a Send (by either endpoint, with its wait loop), a Close
\* and a stdout callback of one session change neither the queue, the
\* buffer, the process nor the table entry of any other session.
C36_SessionsAreIsolated ==
    [][/\ OpenSession => OthersUntouched(NextPid)
       /\ \A r \in Rids, id \in DOMAIN activeSessions :
              /\ SendMessage(r, id, TRUE) =>
                    OthersUntouched(activeSessions[id])
              /\ PostMessages(r, id, TRUE) =>
                    OthersUntouched(activeSessions[id])
              /\ CloseSession(id) => OthersUntouched(activeSessions[id])
       /\ \A r \in Rids, id \in Ids \ DOMAIN activeSessions :
              PostMessages(r, id, TRUE) => OthersUntouched(NextPid)
       /\ \A r \in Rids : SendPoll(r) => OthersUntouched(reqs[r].session)
       /\ \A p \in Pids, k \in 1..MaxPipe :
              StdoutData(p, k) => OthersUntouched(p)]_vars

C36_Witness ==
    \E p \in Live, q \in Live :
        /\ p # q
        /\ responses[p] # <<>>
        /\ buffer[q] # <<>>
        /\ \E r \in Rids : reqs[r].st = "wait" /\ reqs[r].session = q

\* the address has a scheme
HasScheme(s) == StartsWith(s, Http) \/ StartsWith(s, Https)
\* the host an argument stands for: that of the table for a short name,
\* the argument itself otherwise
HostOf(s) == IF In(s, ShortNames) THEN <<knownNetworks[s[1]]>> ELSE s

\* C37: every network argument is resolved: a short name of the table to
\* its host, any other value to itself, with "https://" in front exactly
\* when it has no scheme and without a slash at the end; resolving a
\* resolved address returns it unchanged.
C37_ResolutionIsIdempotent ==
    resolved # NotResolved =>
        /\ resolved.kind = "value"
        /\ resolved.value =
              StripSlash(IF HasScheme(HostOf(network)) THEN HostOf(network)
                         ELSE Https \o HostOf(network))
        /\ GetNetworkUrl(resolved.value) = resolved

\* C10: once the wrapper has exited on the termination signal, no worker
\* process is left live.
C10_ShutdownKillsEveryWorker ==
    ~running => Live = {}

\* C2: a Send that waits on a session whose worker has exited, with nothing
\* queued and nothing left in the pipe, is answered 504 (Timeout), unless
\* the wrapper itself is shut down first.
C2_ExitedWorkerSendTimesOut ==
    \A r \in Rids :
        (/\ reqs[r].st = "wait"
         /\ pstate[reqs[r].session] = "exited"
         /\ responses[reqs[r].session] = <<>>
         /\ stdout[reqs[r].session] = <<>>)
        ~> (\/ /\ res.op = "reply"
               /\ res.status = 504
               /\ res.message = Body(r)
            \/ ~running)

C2_Witness ==
    /\ res.op = "reply"
    /\ res.status = 504
    /\ res.worker = "exited"

\* the step by which request r leaves the wait loop
Leaves(r) == reqs[r].st = "wait" /\ reqs'[r].st = "done"

\* C8: a Send on a known session ends, unless the wrapper is shut down
\* first; it is answered once, either 200 with the head of the session's
\* queue, a message decoded after this Send cleared the queue, or 504 with
\* the queue empty and the deadline passed.
C8_SendEndsWithOneOutcome ==
    /\ \A r \in Rids :
          (reqs[r].st = "wait") ~> (reqs[r].st = "done" \/ ~running)
    /\ [][/\ \A r \in Rids :
                Leaves(r) =>
                    LET p == reqs[r].session
                    IN  /\ res'.op = "reply"
                        /\ res'.message = reqs[r].message
                        /\ \/ /\ res'.status = 200
                              /\ responses[p] # <<>>
                              /\ res'.body = Head(responses[p])
                              /\ Head(responses[p]) \in Range(reqs[r].seen)
                           \/ /\ res'.status = 504
                              /\ responses[p] = <<>>
                              /\ reqs[r].elapsed > timeout
          /\ \A r \in Rids :
                (reqs[r].st = "done" /\ running') => reqs'[r].st = "done"
          /\ res'.op = "reply" =>
                \E r \in Rids : Leaves(r) /\ res'.message = reqs[r].message
         ]_vars

C8_Witness ==
    /\ res.op = "reply"
    /\ res.status = 200
    /\ res.body = res.message
    /\ res.worker = "live"

====
